---- MODULE Spec2Model ----
(***************************************************************************)
(* Model of src/resources/checkout_session_ext.rs of stripe-rs: the        *)
(* request structs CreateCheckoutSession and CreateBillingPortal with      *)
(* their derived Serialize, the response struct BillingPortal with its     *)
(* derived Deserialize, and the two wrappers CheckoutSession::create and   *)
(* BillingPortal::create, each one call of Client::post_form.              *)
(*                                                                         *)
(* Client::post_form (the transport adapter) and the form encoder it uses  *)
(* are not part of the file; they are modelled from the specification      *)
(* (sections 4.2, 4.3, 4.4 and 6).                                         *)
(***************************************************************************)
EXTENDS Integers, Sequences, FiniteSets, TLC

VARIABLES calls, requests

vars == <<calls, requests>>

-----------------------------------------------------------------------------
(* Bounds *)

\* Number of concurrent callers of the two create functions.
MaxCalls == 2

\* Longest payment_method_types, line_items and discounts sequence drawn.
MaxLen == 2

-----------------------------------------------------------------------------
(* Option<T> *)

None == [some |-> FALSE]

Some(v) == [some |-> TRUE, v |-> v]

Opt(present, v) == IF present THEN Some(v) ELSE None

-----------------------------------------------------------------------------
(* Sequence helpers *)

SeqsUpTo(S, n) == UNION {[1..k -> S] : k \in 0..n}

RECURSIVE Flatten(_)
Flatten(ss) == IF ss = <<>> THEN <<>> ELSE Head(ss) \o Flatten(Tail(ss))

-----------------------------------------------------------------------------
(* The serde data model: what a derived Serialize hands to a serializer.   *)

SStr(s) == [t |-> "str", s |-> s]

SInt(n) == [t |-> "int", n |-> n]

SBool(b) == [t |-> "bool", b |-> b]

SNone == [t |-> "none"]

SSome(x) == [t |-> "some", x |-> x]

SSeq(elems) == [t |-> "seq", elems |-> elems]

SStruct(fields) == [t |-> "struct", fields |-> fields]

\* A field the derive always passes to the serializer (no serde attribute).
Field(name, value) == <<[name |-> name, value |-> value]>>

\* Variant: the field without the attribute and without its Option, an
\* absent value sent as the empty string.
SkipIfNoneAsEmpty(name, opt, value) ==
    IF opt.some THEN Field(name, value) ELSE Field(name, SStr(""))

\* #[serde(skip_serializing_if = "Option::is_none")]: the derive does not
\* pass the field to the serializer at all when the Option is None.
SkipIfNone(name, opt, value) == IF opt.some THEN Field(name, value) ELSE <<>>

\* Option<&str>, Option<String>, Option<CustomerId>, Option<CouponId>,
\* Option<PriceId>, Option<Currency> and the Option<enum> fields: the wrapped
\* value serializes as its wire string.
OptStr(o) == IF o.some THEN SSome(SStr(o.v)) ELSE SNone

\* Option<i64>, Option<i32>
OptInt(o) == IF o.some THEN SSome(SInt(o.v)) ELSE SNone

\* Vec<&str>, Vec<String>
SeqStr(v) == SSeq([k \in 1..Len(v) |-> SStr(v[k])])

-----------------------------------------------------------------------------
(* #[derive(Serialize)] of the request structs: the fields in declaration  *)
(* order, under their Rust names (no rename attribute is used).            *)

\* Variant: enabled sent as the integer 1 or 0.
SerializeCheckoutAutomaticTaxAsInt(a) ==
    SStruct(Field("enabled", SInt(IF a.enabled THEN 1 ELSE 0)))

\* struct CheckoutAutomaticTax { enabled: bool }
SerializeCheckoutAutomaticTax(a) ==
    SStruct(Field("enabled", SBool(a.enabled)))

\* Variant: coupon declared without its Option, an absent coupon sent as
\* the empty string.
SerializeCheckoutDiscountDefault(d) ==
    SStruct(Field("coupon", SStr(IF d.coupon.some THEN d.coupon.v ELSE "")))

\* struct CheckoutDiscount { coupon: Option<CouponId> }   (no skip attribute)
SerializeCheckoutDiscount(d) ==
    SStruct(Field("coupon", OptStr(d.coupon)))

\* struct SubscriptionData { #[skip if none] trial_period_days: Option<i32> }
SerializeSubscriptionData(s) ==
    SStruct(SkipIfNone("trial_period_days", s.trial_period_days,
                       OptInt(s.trial_period_days)))

\* struct CheckoutSessionLineItem: amount, currency, name and price carry no
\* skip attribute; description and images do.
SerializeCheckoutSessionLineItem(li) ==
    SStruct(   Field("amount", OptInt(li.amount))
            \o Field("currency", OptStr(li.currency))
            \o Field("name", OptStr(li.name))
            \o Field("quantity", SInt(li.quantity))
            \o SkipIfNone("description", li.description, OptStr(li.description))
            \o SkipIfNone("images", li.images,
                          IF li.images.some THEN SSome(SeqStr(li.images.v))
                                            ELSE SNone)
            \o Field("price", OptStr(li.price)))

\* Variant: the line items walked from the last to the first.
SerializeLineItemsReversed(o) ==
    IF o.some
    THEN SSome(SSeq([k \in 1..Len(o.v) |->
                        SerializeCheckoutSessionLineItem(
                            o.v[Len(o.v) + 1 - k])]))
    ELSE SNone

\* Option<Vec<CheckoutSessionLineItem>>
SerializeLineItems(o) ==
    IF o.some
    THEN SSome(SSeq([k \in 1..Len(o.v) |->
                        SerializeCheckoutSessionLineItem(o.v[k])]))
    ELSE SNone

\* Option<Vec<CheckoutDiscount>>
SerializeDiscounts(o) ==
    IF o.some
    THEN SSome(SSeq([k \in 1..Len(o.v) |-> SerializeCheckoutDiscount(o.v[k])]))
    ELSE SNone

\* Variant: the struct under #[serde(rename_all = "camelCase")].
SerializeRequiredFieldsCamelCase(p) ==
       Field("cancelUrl", SStr(p.cancel_url))
    \o Field("paymentMethodTypes", SeqStr(p.payment_method_types))
    \o Field("successUrl", SStr(p.success_url))

\* CreateCheckoutSession: cancel_url, payment_method_types and success_url,
\* the three fields that are no Option.
SerializeRequiredFields(p) ==
       Field("cancel_url", SStr(p.cancel_url))
    \o Field("payment_method_types", SeqStr(p.payment_method_types))
    \o Field("success_url", SStr(p.success_url))

\* CreateCheckoutSession: the eleven Option fields, each with the skip
\* attribute.
SerializeOptionalFields(p) ==
       SkipIfNone("client_reference_id", p.client_reference_id,
                  OptStr(p.client_reference_id))
    \o SkipIfNone("customer", p.customer, OptStr(p.customer))
    \o SkipIfNone("customer_email", p.customer_email,
                  OptStr(p.customer_email))
    \o SkipIfNone("billing_address_collection", p.billing_address_collection,
                  OptStr(p.billing_address_collection))
    \o SkipIfNone("line_items", p.line_items,
                  SerializeLineItems(p.line_items))
    \o SkipIfNone("locale", p.locale, OptStr(p.locale))
    \o SkipIfNone("mode", p.mode, OptStr(p.mode))
    \o SkipIfNone("discounts", p.discounts, SerializeDiscounts(p.discounts))
    \o SkipIfNone("submit_type", p.submit_type, OptStr(p.submit_type))
    \o SkipIfNone("subscription_data", p.subscription_data,
                  IF p.subscription_data.some
                  THEN SSome(SerializeSubscriptionData(p.subscription_data.v))
                  ELSE SNone)
    \o SkipIfNone("automatic_tax", p.automatic_tax,
                  IF p.automatic_tax.some
                  THEN SSome(SerializeCheckoutAutomaticTax(p.automatic_tax.v))
                  ELSE SNone)

\* struct CreateCheckoutSession
SerializeCreateCheckoutSession(p) ==
    SStruct(SerializeRequiredFields(p) \o SerializeOptionalFields(p))

\* struct CreateBillingPortal { #[skip if none] customer: Option<CustomerId> }
SerializeCreateBillingPortal(p) ==
    SStruct(SkipIfNone("customer", p.customer, OptStr(p.customer)))

\* The params argument of post_form is generic over Serialize; ty names the
\* struct whose impl is called.
Serialize(params) ==
    IF params.ty = "CreateCheckoutSession"
    THEN SerializeCreateCheckoutSession(params.value)
    ELSE SerializeCreateBillingPortal(params.value)

-----------------------------------------------------------------------------
(* The form encoder behind post_form (specification 4.2): a serde value    *)
(* flattened to an ordered sequence of key/value string pairs, bracket     *)
(* notation for nested keys.                                               *)

Digit(d) ==
    CASE d = 0 -> "0" [] d = 1 -> "1" [] d = 2 -> "2" [] d = 3 -> "3"
      [] d = 4 -> "4" [] d = 5 -> "5" [] d = 6 -> "6" [] d = 7 -> "7"
      [] d = 8 -> "8" [] d = 9 -> "9"

RECURSIVE Digits(_)
Digits(n) == IF n < 10 THEN Digit(n) ELSE Digits(n \div 10) \o Digit(n % 10)

\* Integers as decimal.
Decimal(n) == IF n < 0 THEN "-" \o Digits(0 - n) ELSE Digits(n)

\* Booleans as true / false.
BoolString(b) == IF b THEN "true" ELSE "false"

\* <parentKey>[<childKey>]; a top-level field is its bare name.
ChildKey(parent, child) ==
    IF parent = "" THEN child ELSE parent \o "[" \o child \o "]"

RECURSIVE QsValue(_, _)
QsValue(key, v) ==
    CASE v.t = "str"    -> <<[key |-> key, value |-> v.s]>>
      [] v.t = "int"    -> <<[key |-> key, value |-> Decimal(v.n)]>>
      [] v.t = "bool"   -> <<[key |-> key, value |-> BoolString(v.b)]>>
      [] v.t = "none"   -> <<>>
      [] v.t = "some"   -> QsValue(key, v.x)
      [] v.t = "seq"    ->
            Flatten([k \in 1..Len(v.elems) |->
                        QsValue(ChildKey(key, Decimal(k - 1)), v.elems[k])])
      [] v.t = "struct" ->
            Flatten([k \in 1..Len(v.fields) |->
                        QsValue(ChildKey(key, v.fields[k].name),
                                v.fields[k].value)])

\* The wire payload of a params value.
QsSerialize(tree) == QsValue("", tree)

-----------------------------------------------------------------------------
(* The parameter values drawn                                              *)

\* The optional fields of CreateCheckoutSession that hold one scalar.
ScalarFields ==
    {"client_reference_id", "customer", "customer_email",
     "billing_address_collection", "locale", "mode", "submit_type"}

\* The value a present scalar field is given.
Sample(f) ==
    CASE f = "client_reference_id"        -> "cart_42"
      [] f = "customer"                   -> "cus_1"
      [] f = "customer_email"             -> "a@b.c"
      [] f = "billing_address_collection" -> "required"
      [] f = "locale"                     -> "fr"
      [] f = "mode"                       -> "payment"
      [] f = "submit_type"                -> "donate"

CreateCheckoutSession(pmt, S, li, disc, sub, tax) ==
    [cancel_url                 |-> "https://a/cancel",
     payment_method_types       |-> pmt,
     success_url                |-> "https://a/success",
     client_reference_id        |-> Opt("client_reference_id" \in S,
                                        Sample("client_reference_id")),
     customer                   |-> Opt("customer" \in S, Sample("customer")),
     customer_email             |-> Opt("customer_email" \in S,
                                        Sample("customer_email")),
     billing_address_collection |-> Opt("billing_address_collection" \in S,
                                        Sample("billing_address_collection")),
     line_items                 |-> li,
     locale                     |-> Opt("locale" \in S, Sample("locale")),
     mode                       |-> Opt("mode" \in S, Sample("mode")),
     discounts                  |-> disc,
     submit_type                |-> Opt("submit_type" \in S,
                                        Sample("submit_type")),
     subscription_data          |-> sub,
     automatic_tax              |-> tax]

CheckoutSessionLineItem(amount, currency, name, quantity, descr, images, price) ==
    [amount |-> amount, currency |-> currency, name |-> name,
     quantity |-> quantity, description |-> descr, images |-> images,
     price |-> price]

\* A line item with only its required quantity: neither price nor amount
\* and currency.
BareItem ==
    CheckoutSessionLineItem(None, None, None, 1, None, None, None)

\* A line item priced by amount and currency, with two images.
AmountItem ==
    CheckoutSessionLineItem(Some(1999), Some("usd"), Some("shirt"), 2,
                            Some("cotton"),
                            Some(<<"https://img/1", "https://img/2">>), None)

\* A line item priced by a price id, with an empty image list.
PriceItem ==
    CheckoutSessionLineItem(None, None, None, 3, None, Some(<<>>),
                            Some("price_1"))

LineItems == {BareItem, AmountItem, PriceItem}

Discounts == {[coupon |-> None], [coupon |-> Some("co_A")],
              [coupon |-> Some("co_B")]}

PaymentMethodTypes == {"card", "ideal"}

TrialPeriodDays == {-1, 0, 14, 365}

SubscriptionDatas ==
    {[trial_period_days |-> None]}
        \cup {[trial_period_days |-> Some(n)] : n \in TrialPeriodDays}

AutomaticTaxes == {[enabled |-> TRUE], [enabled |-> FALSE]}

OptionOf(S) == {None} \cup {Some(v) : v \in S}

\* Every subset of the scalar fields, with and without the nested objects.
ScalarFamily ==
    {CreateCheckoutSession(<<"card">>, S, None, None, sub, tax) :
        S \in SUBSET ScalarFields,
        sub \in OptionOf(SubscriptionDatas),
        tax \in OptionOf(AutomaticTaxes)}

\* Every combination of the three sequences up to MaxLen elements.
ArrayFamily ==
    {CreateCheckoutSession(pmt, {}, li, disc, None, None) :
        pmt \in SeqsUpTo(PaymentMethodTypes, MaxLen),
        li \in OptionOf(SeqsUpTo(LineItems, MaxLen)),
        disc \in OptionOf(SeqsUpTo(Discounts, MaxLen))}

\* Everything present at once.
FullFamily ==
    {CreateCheckoutSession(<<"ideal", "card">>, ScalarFields, Some(li),
                           Some(<<[coupon |-> Some("co_A")]>>),
                           Some([trial_period_days |-> Some(14)]),
                           Some([enabled |-> TRUE])) :
        li \in SeqsUpTo(LineItems, MaxLen)}

CheckoutFamily == ScalarFamily \cup ArrayFamily \cup FullFamily

CreateBillingPortal(customer) == [customer |-> customer]

PortalFamily == {CreateBillingPortal(c) : c \in OptionOf({"cus_1"})}

\* The minimal checkout session of the specification.
MinimalParams == CreateCheckoutSession(<<"card">>, {}, None, None, None, None)

\* The params the concurrent callers draw from: the minimal session and the
\* values a validating client would reject.
CallCheckoutParams ==
    {MinimalParams,
     CreateCheckoutSession(<<>>, {}, Some(<<>>), None, None, None),
     CreateCheckoutSession(<<"card">>, {"mode"}, Some(<<BareItem>>), None,
                           Some([trial_period_days |-> Some(0)]), None)}

CallPortalParams == PortalFamily

-----------------------------------------------------------------------------
(* Response<T>: the adapter's result, a success value or an error          *)

Ok(v) == [ok |-> TRUE, v |-> v]

Err(e) == [ok |-> FALSE, e |-> e]

TransportError == "transport"

ApiError == "api"

DecodeError == "decode"

-----------------------------------------------------------------------------
(* Response bodies: a JSON object is a sequence of members with distinct   *)
(* keys.                                                                   *)

JStr(s) == [t |-> "str", s |-> s]

JNum(n) == [t |-> "num", n |-> n]

JNull == [t |-> "null"]

Member(k, v) == [k |-> k, v |-> v]

HasKey(obj, k) == \E i \in 1..Len(obj) : obj[i].k = k

ValueOf(obj, k) == obj[CHOOSE i \in 1..Len(obj) : obj[i].k = k].v

\* Variant: the struct under #[serde(deny_unknown_fields)].
DecodeBillingPortalDenyUnknown(obj) ==
    IF \E k \in 1..Len(obj) : obj[k].k # "url"
    THEN Err(DecodeError)
    ELSE IF ~HasKey(obj, "url")
         THEN Ok([url |-> None])
         ELSE LET v == ValueOf(obj, "url")
              IN  CASE v.t = "null" -> Ok([url |-> None])
                    [] v.t = "str"  -> Ok([url |-> Some(v.s)])
                    [] OTHER        -> Err(DecodeError)

\* #[derive(Deserialize)] struct BillingPortal { url: Option<String> }: a
\* missing or null url is None, a string is Some, any other type is an
\* error; members the struct does not declare are skipped (the struct has
\* no deny_unknown_fields).
DecodeBillingPortal(obj) ==
    IF ~HasKey(obj, "url")
    THEN Ok([url |-> None])
    ELSE LET v == ValueOf(obj, "url")
         IN  CASE v.t = "null" -> Ok([url |-> None])
               [] v.t = "str"  -> Ok([url |-> Some(v.s)])
               [] OTHER        -> Err(DecodeError)

\* CheckoutSession is declared outside the file: an opaque entity that
\* decodes when its required id is there.
DecodeCheckoutSession(obj) ==
    IF HasKey(obj, "id") /\ ValueOf(obj, "id").t = "str"
    THEN Ok([id |-> ValueOf(obj, "id").s])
    ELSE Err(DecodeError)

PortalBodies ==
    {<<>>,
     <<Member("url", JStr("https://p/1"))>>,
     <<Member("url", JNull)>>,
     <<Member("url", JNum(5))>>,
     <<Member("id", JStr("bps_1")), Member("url", JStr("https://p/2"))>>,
     <<Member("id", JStr("bps_1"))>>}

CheckoutBodies ==
    {<<>>, <<Member("id", JStr("cs_1")), Member("url", JNull)>>}

\* What the remote side can answer a request with: a failure of the
\* transport, an error of the API, or a JSON body.
Outcomes(params) ==
    {[t |-> "error", e |-> TransportError], [t |-> "error", e |-> ApiError]}
        \cup {[t |-> "body", json |-> b] :
                b \in IF params.ty = "CreateCheckoutSession"
                      THEN CheckoutBodies ELSE PortalBodies}

\* post_form's decoding of an outcome into Response<T>, T fixed by the
\* wrapper that called it.
Decode(params, outcome) ==
    IF outcome.t = "error"
    THEN Err(outcome.e)
    ELSE IF params.ty = "CreateCheckoutSession"
         THEN DecodeCheckoutSession(outcome.json)
         ELSE DecodeBillingPortal(outcome.json)

-----------------------------------------------------------------------------
(* The two wrappers                                                        *)

Calls == 1..MaxCalls

CheckoutSessionPath == "/checkout/sessions"

BillingPortalPath == "/billing_portal/sessions"

\* Variant: the request made a second time.
CheckoutSessionCreateBodyRetry(params) ==
    <<[path |-> CheckoutSessionPath,
       params |-> [ty |-> "CreateCheckoutSession", value |-> params]],
      [path |-> CheckoutSessionPath,
       params |-> [ty |-> "CreateCheckoutSession", value |-> params]]>>

\* The post_form calls the body of CheckoutSession::create makes, in order.
CheckoutSessionCreateBody(params) ==
    <<[path |-> CheckoutSessionPath,
       params |-> [ty |-> "CreateCheckoutSession", value |-> params]]>>

\* Variant: params with no customer rejected before the adapter is called.
BillingPortalCreateBodyValidating(params) ==
    IF params.customer.some
    THEN <<[path |-> BillingPortalPath,
            params |-> [ty |-> "CreateBillingPortal", value |-> params]]>>
    ELSE <<>>

\* The post_form calls the body of BillingPortal::create makes, in order.
BillingPortalCreateBody(params) ==
    <<[path |-> BillingPortalPath,
       params |-> [ty |-> "CreateBillingPortal", value |-> params]]>>

\* Variant: an error of the adapter replaced by a default session.
CheckoutSessionCreateReturnDefault(r) == IF r.ok THEN r ELSE Ok([id |-> ""])

\* The value CheckoutSession::create returns, given what post_form
\* returned: the call is the tail expression of the function.
CheckoutSessionCreateReturn(r) == r

\* Variant: the result of an earlier call kept and returned again.
BillingPortalCreateReturnCached(r) ==
    LET done == {d \in Calls : calls[d].pc = "returned"}
    IN  IF done # {} THEN calls[CHOOSE d \in done : TRUE].result ELSE r

\* The value BillingPortal::create returns, given what post_form returned.
BillingPortalCreateReturn(r) == r

\* A request as the adapter holds it from the call of post_form on.
NewRequest(call) ==
    [path |-> call.path, params |-> call.params, state |-> "queued",
     body |-> <<>>, response |-> [t |-> "none"], result |-> [t |-> "none"]]

IdleCall == [pc |-> "idle"]

Init ==
    /\ calls = [c \in Calls |-> IdleCall]
    /\ requests = [c \in Calls |-> <<>>]

\* Caller c calls CheckoutSession::create(client, params).
CheckoutSessionCreate(c, params) ==
    /\ calls[c].pc = "idle"
    /\ calls' = [calls EXCEPT ![c] =
                    [pc |-> "awaiting", fn |-> "CheckoutSession::create",
                     params |-> params]]
    /\ requests' = [requests EXCEPT ![c] =
                    LET body == CheckoutSessionCreateBody(params)
                    IN  @ \o [k \in 1..Len(body) |-> NewRequest(body[k])]]

\* Caller c calls BillingPortal::create(client, params).
BillingPortalCreate(c, params) ==
    /\ calls[c].pc = "idle"
    /\ calls' = [calls EXCEPT ![c] =
                    [pc |-> "awaiting", fn |-> "BillingPortal::create",
                     params |-> params]]
    /\ requests' = [requests EXCEPT ![c] =
                    LET body == BillingPortalCreateBody(params)
                    IN  @ \o [k \in 1..Len(body) |-> NewRequest(body[k])]]

\* post_form serializes the params of request i of caller c and sends them.
PostFormSend(c, i) ==
    /\ requests[c][i].state = "queued"
    /\ requests' = [requests EXCEPT ![c][i] =
                    [@ EXCEPT !.state = "sent",
                              !.body = QsSerialize(
                                           Serialize(requests[c][i].params))]]
    /\ UNCHANGED calls

\* The remote side answers request i of caller c and post_form decodes the
\* answer.
PostFormResolve(c, i, outcome) ==
    /\ requests[c][i].state = "sent"
    /\ requests' = [requests EXCEPT ![c][i] =
                    [@ EXCEPT !.state = "resolved",
                              !.response = outcome,
                              !.result = Decode(requests[c][i].params,
                                                outcome)]]
    /\ UNCHANGED calls

\* What the post_form call of caller c evaluated to.
AdapterResult(c) == requests[c][Len(requests[c])].result

\* The wrapper called by c returns to its caller.
Return(c) ==
    /\ calls[c].pc = "awaiting"
    /\ requests[c] # <<>>
    /\ \A i \in 1..Len(requests[c]) : requests[c][i].state = "resolved"
    /\ calls' = [calls EXCEPT ![c] =
                    [pc |-> "returned", fn |-> @.fn, params |-> @.params,
                     result |-> IF calls[c].fn = "CheckoutSession::create"
                                THEN CheckoutSessionCreateReturn(AdapterResult(c))
                                ELSE BillingPortalCreateReturn(AdapterResult(c))]]
    /\ UNCHANGED requests

Next ==
    \/ \E c \in Calls, p \in CallCheckoutParams : CheckoutSessionCreate(c, p)
    \/ \E c \in Calls, p \in CallPortalParams : BillingPortalCreate(c, p)
    \/ \E c \in Calls : \E i \in 1..Len(requests[c]) : PostFormSend(c, i)
    \/ \E c \in Calls : \E i \in 1..Len(requests[c]) :
          \E o \in Outcomes(requests[c][i].params) : PostFormResolve(c, i, o)
    \/ \E c \in Calls : Return(c)

\* Concurrent callers, each drawing its params from the call params.
Spec == Init /\ [][Next]_vars

\* One caller whose params range over the whole parameter family, followed
\* until its payload is on the wire.
SerNext ==
    \/ /\ calls[1].pc = "idle"
       /\ \E p \in CheckoutFamily : CheckoutSessionCreate(1, p)
    \/ /\ calls[1].pc = "idle"
       /\ \E p \in PortalFamily : BillingPortalCreate(1, p)
    \/ \E i \in 1..Len(requests[1]) : PostFormSend(1, i)

SerSpec == Init /\ [][SerNext]_vars

-----------------------------------------------------------------------------
(* Reading the wire payload                                                *)

StartsWith(s, prefix) ==
    Len(s) >= Len(prefix) /\ SubSeq(s, 1, Len(prefix)) = prefix

Keys(body) == {body[k].key : k \in 1..Len(body)}

\* The entries of a payload under one key.
Entries(body, key) == {k \in 1..Len(body) : body[k].key = key}

\* The payload holds exactly one entry key = value.
HasOne(body, key, value) ==
    /\ Cardinality(Entries(body, key)) = 1
    /\ \A k \in Entries(body, key) : body[k].value = value

\* The array indices that appear in a payload right after a key prefix.
EmittedIndices(body, prefix) ==
    {j \in 0..(MaxLen + 1) :
        \E k \in Keys(body) : StartsWith(k, prefix \o "[" \o Decimal(j) \o "]")}

DigitValue(ch) ==
    CASE ch = "0" -> 0 [] ch = "1" -> 1 [] ch = "2" -> 2 [] ch = "3" -> 3
      [] ch = "4" -> 4 [] ch = "5" -> 5 [] ch = "6" -> 6 [] ch = "7" -> 7
      [] ch = "8" -> 8 [] ch = "9" -> 9

IsDigits(s) ==
    /\ Len(s) >= 1
    /\ \A k \in 1..Len(s) :
          SubSeq(s, k, k) \in {"0", "1", "2", "3", "4", "5", "6", "7", "8", "9"}
    /\ (Len(s) > 1 => SubSeq(s, 1, 1) # "0")

RECURSIVE ParseDigits(_)
ParseDigits(s) ==
    IF Len(s) = 1
    THEN DigitValue(s)
    ELSE 10 * ParseDigits(SubSeq(s, 1, Len(s) - 1))
            + DigitValue(SubSeq(s, Len(s), Len(s)))

\* s is the canonical decimal string of n.
IsDecimalOf(s, n) ==
    IF StartsWith(s, "-")
    THEN LET d == SubSeq(s, 2, Len(s))
         IN  IsDigits(d) /\ n < 0 /\ ParseDigits(d) = 0 - n
    ELSE IsDigits(s) /\ ParseDigits(s) = n

\* The requests whose payload has been built, per params type.
SentOf(ty) ==
    {requests[c][i] : <<c, i>> \in
        {ci \in Calls \X (1..1) :
            /\ ci[2] <= Len(requests[ci[1]])
            /\ requests[ci[1]][ci[2]].state # "queued"
            /\ requests[ci[1]][ci[2]].params.ty = ty}}

SentCheckout == SentOf("CreateCheckoutSession")

SentPortal == SentOf("CreateBillingPortal")

\* The top-level optional fields, by wire name.
CheckoutOptionalFields ==
    ScalarFields \cup {"line_items", "discounts", "subscription_data",
                       "automatic_tax"}

PortalOptionalFields == {"customer"}

OptionalFields(ty) ==
    IF ty = "CreateCheckoutSession" THEN CheckoutOptionalFields
                                    ELSE PortalOptionalFields

-----------------------------------------------------------------------------
(* C1, as stated: an absent top-level optional field leaves no key that    *)
(* equals its wire name or starts with its wire name.                      *)
C1_AsStated ==
    \A r \in SentCheckout \cup SentPortal :
        \A f \in OptionalFields(r.params.ty) :
            ~r.params.value[f].some =>
                \A k \in Keys(r.body) : k # f /\ ~StartsWith(k, f)

(* C1, amended: an absent top-level optional field leaves no key that      *)
(* equals its wire name or starts with its wire name followed by "[",      *)
(* that is, no key of the field itself or of anything nested in it.        *)
C1_AbsentTopLevelOmitted ==
    \A r \in SentCheckout \cup SentPortal :
        \A f \in OptionalFields(r.params.ty) :
            ~r.params.value[f].some =>
                \A k \in Keys(r.body) : k # f /\ ~StartsWith(k, f \o "[")

\* A payload is on the wire whose params leave customer absent and set
\* customer_email.
C1_Witness ==
    \E r \in SentCheckout :
        /\ ~r.params.value.customer.some
        /\ r.params.value.customer_email.some
        /\ "customer_email" \in Keys(r.body)

-----------------------------------------------------------------------------
LineItemBareOptionals == {"amount", "currency", "name", "price"}

ItemKey(i, f) == "line_items[" \o Decimal(i) \o "][" \o f \o "]"

DiscountKey(j) == "discounts[" \o Decimal(j) \o "][coupon]"

(* C2: for every line item at index i whose amount, currency, name or      *)
(* price is absent and every discount at index j whose coupon is absent,   *)
(* the payload has no key line_items[i][<field>] and no key                *)
(* discounts[j][coupon].                                                   *)
C2_AbsentNestedOmitted ==
    \A r \in SentCheckout :
        LET p == r.params.value
        IN  /\ p.line_items.some =>
                \A i \in 1..Len(p.line_items.v) :
                    \A f \in LineItemBareOptionals :
                        ~p.line_items.v[i][f].some =>
                            ItemKey(i - 1, f) \notin Keys(r.body)
            /\ p.discounts.some =>
                \A j \in 1..Len(p.discounts.v) :
                    ~p.discounts.v[j].coupon.some =>
                        DiscountKey(j - 1) \notin Keys(r.body)

\* A payload is on the wire for a second line item with no amount and a
\* first discount with no coupon, beside elements that have them.
C2_Witness ==
    \E r \in SentCheckout :
        LET p == r.params.value
        IN  /\ p.line_items.some /\ Len(p.line_items.v) = 2
            /\ p.line_items.v[1].amount.some
            /\ ~p.line_items.v[2].amount.some
            /\ p.discounts.some /\ Len(p.discounts.v) = 2
            /\ ~p.discounts.v[1].coupon.some
            /\ p.discounts.v[2].coupon.some
            /\ ItemKey(0, "amount") \in Keys(r.body)
            /\ DiscountKey(1) \in Keys(r.body)

-----------------------------------------------------------------------------
\* The keys one line item at index i is to produce.
ExpectedItemKeys(i, li) ==
    {ItemKey(i, "quantity")}
        \cup {ItemKey(i, f) : f \in {g \in LineItemBareOptionals : li[g].some}}
        \cup (IF li.description.some THEN {ItemKey(i, "description")} ELSE {})
        \cup (IF li.images.some
              THEN {ItemKey(i, "images") \o "[" \o Decimal(k - 1) \o "]" :
                        k \in 1..Len(li.images.v)}
              ELSE {})

\* The keys a CreateCheckoutSession is to produce: the required fields and
\* the optional fields that are present.
ExpectedKeys(p) ==
    {"cancel_url", "success_url"}
        \cup {"payment_method_types[" \o Decimal(k - 1) \o "]" :
                k \in 1..Len(p.payment_method_types)}
        \cup {f \in ScalarFields : p[f].some}
        \cup (IF p.line_items.some
              THEN UNION {ExpectedItemKeys(i - 1, p.line_items.v[i]) :
                            i \in 1..Len(p.line_items.v)}
              ELSE {})
        \cup (IF p.discounts.some
              THEN {DiscountKey(j - 1) :
                        j \in {k \in 1..Len(p.discounts.v) :
                                    p.discounts.v[k].coupon.some}}
              ELSE {})
        \cup (IF p.subscription_data.some
                 /\ p.subscription_data.v.trial_period_days.some
              THEN {"subscription_data[trial_period_days]"} ELSE {})
        \cup (IF p.automatic_tax.some THEN {"automatic_tax[enabled]"} ELSE {})

(* C3: the emitted keys of a CreateCheckoutSession are exactly the keys of *)
(* the required fields and of the optional fields that are present, each   *)
(* key once, each present scalar field one entry name = value; the minimal *)
(* params give exactly cancel_url, success_url, payment_method_types[0].   *)
C3_ExactKeySet ==
    \A r \in SentCheckout :
        LET p == r.params.value
        IN  /\ Keys(r.body) = ExpectedKeys(p)
            /\ Len(r.body) = Cardinality(Keys(r.body))
            /\ HasOne(r.body, "cancel_url", p.cancel_url)
            /\ HasOne(r.body, "success_url", p.success_url)
            /\ \A f \in ScalarFields :
                    p[f].some => HasOne(r.body, f, p[f].v)
            /\ p = MinimalParams =>
                    Keys(r.body) = {"cancel_url", "success_url",
                                    "payment_method_types[0]"}

\* The minimal params are on the wire, as three entries.
C3_Witness ==
    \E r \in SentCheckout :
        /\ r.params.value = MinimalParams
        /\ Len(r.body) = 3

-----------------------------------------------------------------------------
IndexedKey(prefix, k) == prefix \o "[" \o Decimal(k) \o "]"

\* Every element that has something to emit is emitted under the index of
\* its input position, once; payment_method_types, line_items and images
\* use exactly the indices 0..n-1.
ElementsAtTheirIndex(r) ==
    LET p == r.params.value
        pmt == p.payment_method_types
    IN  /\ \A k \in 1..Len(pmt) :
              HasOne(r.body, IndexedKey("payment_method_types", k - 1), pmt[k])
        /\ EmittedIndices(r.body, "payment_method_types")
              = 0..(Len(pmt) - 1)
        /\ ~p.line_items.some => EmittedIndices(r.body, "line_items") = {}
        /\ p.line_items.some =>
              /\ EmittedIndices(r.body, "line_items")
                    = 0..(Len(p.line_items.v) - 1)
              /\ \A i \in 1..Len(p.line_items.v) :
                    LET li == p.line_items.v[i]
                    IN  /\ HasOne(r.body, ItemKey(i - 1, "quantity"),
                                  Decimal(li.quantity))
                        /\ li.name.some =>
                              HasOne(r.body, ItemKey(i - 1, "name"), li.name.v)
                        /\ li.price.some =>
                              HasOne(r.body, ItemKey(i - 1, "price"), li.price.v)
                        /\ ~li.images.some =>
                              EmittedIndices(r.body, ItemKey(i - 1, "images"))
                                 = {}
                        /\ li.images.some =>
                              /\ EmittedIndices(r.body, ItemKey(i - 1, "images"))
                                    = 0..(Len(li.images.v) - 1)
                              /\ \A k \in 1..Len(li.images.v) :
                                    HasOne(r.body,
                                           IndexedKey(ItemKey(i - 1, "images"),
                                                      k - 1),
                                           li.images.v[k])
        /\ p.discounts.some =>
              \A j \in 1..Len(p.discounts.v) :
                  p.discounts.v[j].coupon.some =>
                      HasOne(r.body, DiscountKey(j - 1),
                             p.discounts.v[j].coupon.v)

(* C4, as stated: every array-valued field of length n, discounts          *)
(* included, is emitted under exactly the indices 0..n-1, element k under  *)
(* index k.                                                                *)
C4_AsStated ==
    \A r \in SentCheckout :
        /\ ElementsAtTheirIndex(r)
        /\ r.params.value.discounts.some =>
              EmittedIndices(r.body, "discounts")
                 = 0..(Len(r.params.value.discounts.v) - 1)

(* C4, amended: array order is preserved, element k under index k, and the *)
(* indices of payment_method_types, line_items and images are exactly      *)
(* 0..n-1; of discounts, the indices that appear are exactly those of the  *)
(* elements that have a coupon, each at its input position (a discount     *)
(* with no coupon emits no entry, so its index does not appear).           *)
C4_ArrayOrderPreserved ==
    \A r \in SentCheckout :
        /\ ElementsAtTheirIndex(r)
        /\ ~r.params.value.discounts.some =>
              EmittedIndices(r.body, "discounts") = {}
        /\ r.params.value.discounts.some =>
              EmittedIndices(r.body, "discounts")
                 = {j - 1 : j \in {k \in 1..Len(r.params.value.discounts.v) :
                                    r.params.value.discounts.v[k].coupon.some}}

\* A payload is on the wire for two different line items, two different
\* coupons and two different payment method types.
C4_Witness ==
    \E r \in SentCheckout :
        LET p == r.params.value
        IN  /\ p.payment_method_types = <<"ideal", "card">>
            /\ p.line_items = Some(<<AmountItem, PriceItem>>)
            /\ p.discounts = Some(<<[coupon |-> Some("co_B")],
                                    [coupon |-> Some("co_A")]>>)
            /\ HasOne(r.body, "line_items[0][quantity]", "2")
            /\ HasOne(r.body, "line_items[1][quantity]", "3")
            /\ HasOne(r.body, "line_items[0][images][1]", "https://img/2")
            /\ HasOne(r.body, "discounts[0][coupon]", "co_B")
            /\ HasOne(r.body, "payment_method_types[0]", "ideal")

-----------------------------------------------------------------------------
\* The entries of a payload whose key starts with a prefix.
EntriesUnder(body, prefix) ==
    {k \in 1..Len(body) : StartsWith(body[k].key, prefix)}

(* C5: a present automatic_tax = {enabled: b} is exactly one entry,        *)
(* automatic_tax[enabled] = "true" or "false" as b is; a present           *)
(* subscription_data = {trial_period_days: n} is exactly one entry,        *)
(* subscription_data[trial_period_days] = the decimal string of n.         *)
C5_NestedObjectFlattened ==
    \A r \in SentCheckout :
        LET p == r.params.value
        IN  /\ p.automatic_tax.some =>
                /\ Cardinality(EntriesUnder(r.body, "automatic_tax")) = 1
                /\ \A k \in EntriesUnder(r.body, "automatic_tax") :
                      /\ r.body[k].key = "automatic_tax[enabled]"
                      /\ p.automatic_tax.v.enabled => r.body[k].value = "true"
                      /\ ~p.automatic_tax.v.enabled => r.body[k].value = "false"
            /\ (p.subscription_data.some
                    /\ p.subscription_data.v.trial_period_days.some) =>
                /\ Cardinality(EntriesUnder(r.body, "subscription_data")) = 1
                /\ \A k \in EntriesUnder(r.body, "subscription_data") :
                      /\ r.body[k].key = "subscription_data[trial_period_days]"
                      /\ IsDecimalOf(r.body[k].value,
                                     p.subscription_data.v.trial_period_days.v)

\* A payload is on the wire with automatic_tax disabled and a negative
\* trial period.
C5_Witness ==
    \E r \in SentCheckout :
        /\ r.params.value.automatic_tax = Some([enabled |-> FALSE])
        /\ r.params.value.subscription_data
              = Some([trial_period_days |-> Some(-1)])
        /\ HasOne(r.body, "automatic_tax[enabled]", "false")
        /\ HasOne(r.body, "subscription_data[trial_period_days]", "-1")

-----------------------------------------------------------------------------
\* The fixed path and the params type of each wrapper.
PathOf(fn) ==
    IF fn = "CheckoutSession::create" THEN "/checkout/sessions"
                                      ELSE "/billing_portal/sessions"

ParamsTypeOf(fn) ==
    IF fn = "CheckoutSession::create" THEN "CreateCheckoutSession"
                                      ELSE "CreateBillingPortal"

Started == {c \in Calls : calls[c].pc # "idle"}

Returned == {c \in Calls : calls[c].pc = "returned"}

(* C6: each wrapper is a pass-through: every request it hands the adapter  *)
(* has the wrapper's fixed path and the caller's params unchanged, and the *)
(* value returned to the caller is the adapter's result for that request,  *)
(* a success value or an error alike.                                      *)
C6_PassThrough ==
    \A c \in Started :
        /\ \A i \in 1..Len(requests[c]) :
              /\ requests[c][i].path = PathOf(calls[c].fn)
              /\ requests[c][i].params.ty = ParamsTypeOf(calls[c].fn)
              /\ requests[c][i].params.value = calls[c].params
        /\ c \in Returned =>
              /\ requests[c] # <<>>
              /\ requests[c][1].state = "resolved"
              /\ calls[c].result = requests[c][1].result

\* Both wrappers have returned, one an error of the adapter and one a
\* success value.
C6_Witness ==
    \E c, d \in Returned :
        /\ calls[c].fn = "CheckoutSession::create"
        /\ calls[c].result = Err(ApiError)
        /\ requests[c][1].response = [t |-> "error", e |-> ApiError]
        /\ calls[d].fn = "BillingPortal::create"
        /\ calls[d].result = Ok([url |-> Some("https://p/1")])

-----------------------------------------------------------------------------
(* C7: a call issues exactly one adapter request over its whole lifetime:  *)
(* none before it is made, one from then on, whether the request is        *)
(* pending, has succeeded or has failed, and after the call has returned.  *)
C7_ExactlyOneRequest ==
    \A c \in Calls :
        /\ calls[c].pc = "idle" => Len(requests[c]) = 0
        /\ calls[c].pc # "idle" => Len(requests[c]) = 1

\* A call has returned the error of its one request, which was not sent
\* again.
C7_Witness ==
    \E c \in Returned :
        /\ Len(requests[c]) = 1
        /\ requests[c][1].state = "resolved"
        /\ ~requests[c][1].result.ok
        /\ calls[c].result = Err(TransportError)

-----------------------------------------------------------------------------
\* The resolved requests for a billing portal that were answered with a
\* JSON body.
DecodedPortal ==
    {r \in SentPortal : r.state = "resolved" /\ r.response.t = "body"}

\* A JSON object without the members BillingPortal does not declare.
KnownMembers(obj) == SelectSeq(obj, LAMBDA m : m.k = "url")

(* C8: decoding a JSON object into BillingPortal gives url = the payload's *)
(* url when it has one and url absent when it has none, and members the    *)
(* struct does not declare neither fail the decoding nor change the url.   *)
C8_DecodeBillingPortal ==
    \A r \in DecodedPortal :
        LET obj == r.response.json
        IN  /\ (HasKey(obj, "url") /\ ValueOf(obj, "url").t = "str") =>
                  r.result = Ok([url |-> Some(ValueOf(obj, "url").s)])
            /\ ~HasKey(obj, "url") => r.result = Ok([url |-> None])
            /\ r.result = DecodeBillingPortal(KnownMembers(obj))
            /\ (\A k \in 1..Len(obj) : obj[k].v.t \in {"str", "null"}) =>
                  r.result.ok

\* A body with an undeclared id beside its url has been decoded, and so
\* has a body with only the undeclared id.
C8_Witness ==
    \E r, q \in DecodedPortal :
        /\ r.response.json = <<Member("id", JStr("bps_1")),
                               Member("url", JStr("https://p/2"))>>
        /\ r.result = Ok([url |-> Some("https://p/2")])
        /\ q.response.json = <<Member("id", JStr("bps_1"))>>
        /\ q.result = Ok([url |-> None])

-----------------------------------------------------------------------------
\* Caller c's part of the state.
Own(c) == <<calls[c], requests[c]>>

(* C9: concurrent calls share no state: a step of one call changes nothing *)
(* of any other call, a call's requests carry the path and params of that  *)
(* call, and a call that returns returns the result of its own request.    *)
C9_NoSharedState ==
    [][\A c \in Calls :
          Own(c)' # Own(c) =>
              /\ \A d \in Calls \ {c} : Own(d)' = Own(d)
              /\ \A i \in 1..Len(requests'[c]) :
                    /\ requests'[c][i].path = PathOf(calls'[c].fn)
                    /\ requests'[c][i].params.value = calls'[c].params
              /\ (calls[c].pc = "awaiting" /\ calls'[c].pc = "returned") =>
                    /\ requests[c] # <<>>
                    /\ calls'[c].result = requests[c][1].result]_vars

\* Two calls of different wrappers with different outcomes have both
\* returned.
C9_Witness ==
    \E c, d \in Returned :
        /\ c < d
        /\ calls[c].fn # calls[d].fn
        /\ calls[c].result # calls[d].result
        /\ calls[c].result = requests[c][1].result
        /\ calls[d].result = requests[d][1].result

-----------------------------------------------------------------------------
(* C10: no params value is rejected before the adapter: a create call can  *)
(* be made with every params value, every call that was made has handed    *)
(* its request to the adapter under the wrapper's fixed path, and a        *)
(* CreateBillingPortal with no customer goes out with zero keys.           *)
C10_NoClientSideValidation ==
    /\ \A c \in Calls :
          calls[c].pc = "idle" =>
              /\ \A p \in CallCheckoutParams : ENABLED CheckoutSessionCreate(c, p)
              /\ \A p \in CallPortalParams : ENABLED BillingPortalCreate(c, p)
    /\ \A c \in Started :
          /\ requests[c] # <<>>
          /\ requests[c][1].path = PathOf(calls[c].fn)
    /\ \A r \in SentPortal : ~r.params.value.customer.some => r.body = <<>>

\* A checkout call with no payment method types and a portal call with no
\* customer have both been sent to their paths.
C10_Witness ==
    \E c, d \in Started :
        /\ calls[c].fn = "CheckoutSession::create"
        /\ calls[c].params.payment_method_types = <<>>
        /\ requests[c][1].state = "sent"
        /\ requests[c][1].path = "/checkout/sessions"
        /\ calls[d].fn = "BillingPortal::create"
        /\ calls[d].params = CreateBillingPortal(None)
        /\ requests[d][1].state = "sent"
        /\ requests[d][1].path = "/billing_portal/sessions"
        /\ requests[d][1].body = <<>>

====
